---- MODULE Spec2Model ----
(***************************************************************************)
(* Model of src/src/simple_deque_1.rs: a doubly-linked deque whose nodes   *)
(* are Rc<RefCell<Node<T>>>.  The heap is a function from node ids to the  *)
(* node's fields plus the Rc strong count and the RefCell borrow flag.     *)
(* Every public method is one action; the method bodies are operators      *)
(* over (heap, head, tail) so that they can be compared with the source.   *)
(* The Box stacks of simple_stack_1.rs / simple_stack_2.rs and the         *)
(* persistent Rc list of simple_stack_3.rs have their own variables and    *)
(* their own specifications, SpecStack and SpecPersist.                    *)
(***************************************************************************)
EXTENDS Integers, Sequences, FiniteSets, TLC

\* ---------------------------------------------------------------- bounds
MaxNodes == 3        \* heap cells available to Rc::new
MaxVal == 3          \* pushed elements are drawn from 1..MaxVal
MaxHandles == 2      \* Ref / RefMut handles the caller keeps at one time
MaxLists == 3        \* simple_stack_3::List values the caller holds at one time

NULL == 0
Nodes == 1..MaxNodes
Values == 1..MaxVal
WValues == 1..(MaxVal + 1)   \* values the caller writes through a RefMut

VARIABLES
    heap,      \* node id -> [elem, next, prev, strong, borrow]
    head,      \* List.head : Link (NULL or a node id)
    tail,      \* List.tail : Link
    phase,     \* "list": the List is owned by the caller; "iter": it was
               \* moved into IntoIter; "dropped": it went out of scope
    handles,   \* the Ref/RefMut values returned by peek_* and still held
    ret,       \* the call that was made last and what it returned
    src,       \* the elements of the deque when into_iter() was called
    outFront,  \* what next() has yielded so far
    outBack,   \* what next_back() has yielded so far
    trace,     \* the borrows, link writes and try_unwrap the last push/pop
               \* made, in program order
    sheap,     \* the Box<Node> cells of the two stacks: id -> [elem, next, used]
    s1,        \* simple_stack_1::List.head : Link
    s2,        \* simple_stack_2::List.head : Link
    slive,     \* slive[k]: the List of stack k has not gone out of scope
    it2,       \* simple_stack_2: the iterator borrowing or owning the list:
               \* [mode, next, refs]; refs are the &mut T that IterMut handed out
    sret,      \* the stack call that was made last and what it returned
    pheap,     \* simple_stack_3: node id -> [elem, next, strong]
    lists,     \* simple_stack_3: the List values the caller holds
    pret       \* the persistent-list call made last and what it returned

dvars == <<heap, head, tail, phase, handles, ret, src, outFront, outBack, trace>>
svars == <<sheap, s1, s2, slive, it2, sret>>
pvars == <<pheap, lists, pret>>
vars == <<dvars, svars, pvars>>

\* ------------------------------------------------------- Rc and RefCell
\* A heap cell nothing owns (strong = 0) is free memory.
FreeNode == [elem |-> 0, next |-> NULL, prev |-> NULL, strong |-> 0, borrow |-> 0]

\* A Box<Node> cell of the stacks that is not allocated.
SFree == [elem |-> 0, next |-> NULL, used |-> FALSE]

\* An Rc<Node> cell of the persistent list that nothing owns.
PFree == [elem |-> 0, next |-> NULL, strong |-> 0]

\* A slot of the caller that holds no persistent List.
NoList == -1
Slots == 1..MaxLists

Live(h) == {n \in Nodes : h[n].strong > 0}

\* Dropping one Option<Rc<..>>: the strong count goes down by one; at zero
\* the Node is dropped, which drops its own next and prev links in turn.
RECURSIVE DropRc(_, _)
DropRc(h, l) ==
    IF l = NULL THEN h
    ELSE IF h[l].strong > 1 THEN [h EXCEPT ![l].strong = @ - 1]
    ELSE DropRc(DropRc([h EXCEPT ![l] = FreeNode], h[l].next), h[l].prev)

\* One step inside a method: a RefCell borrow taken or released, a link
\* written, or the strong count Rc::try_unwrap found.
Ev(ev, node, val) == [ev |-> ev, node |-> node, val |-> val]

\* Rc::clone
RcClone(h, n) == [h EXCEPT ![n].strong = @ + 1]

\* RefCell::borrow: fails when a RefMut is alive.
RefCell_borrow(h, n) ==
    IF h[n].borrow < 0 THEN [ok |-> FALSE, heap |-> h]
    ELSE [ok |-> TRUE, heap |-> [h EXCEPT ![n].borrow = @ + 1]]

\* RefCell::borrow_mut: fails when any Ref or RefMut is alive.
RefCell_borrow_mut(h, n) ==
    IF h[n].borrow # 0 THEN [ok |-> FALSE, heap |-> h]
    ELSE [ok |-> TRUE, heap |-> [h EXCEPT ![n].borrow = -1]]

\* Node::new: Rc::new(RefCell::new(Node { elem, prev: None, next: None }))
HasFree(h) == \E n \in Nodes : h[n].strong = 0
Node_new(h, elem) ==
    LET n == CHOOSE m \in Nodes :
                 h[m].strong = 0 /\ \A k \in Nodes : h[k].strong = 0 => m <= k
    IN [node |-> n,
        heap |-> [h EXCEPT ![n] = [elem |-> elem, next |-> NULL, prev |-> NULL,
                                   strong |-> 1, borrow |-> 0]]]

\* ------------------------------------------------------------ List<T>
\* push_front that leaves the new node's next link unset: the old head's Rc
\* goes out of scope at the end of the match arm.
push_front_no_next(h, hd, tl, elem) ==
    LET a == Node_new(h, elem)
        new_node == a.node
    IN IF hd # NULL
       THEN LET old_head == hd
                h1 == DropRc([RcClone(a.heap, new_node) EXCEPT ![old_head].prev = new_node],
                             a.heap[old_head].prev)
            IN [heap |-> DropRc(h1, old_head), head |-> new_node, tail |-> tl,
                log |-> <<Ev("take_head", NULL, old_head),
                          Ev("borrow_mut", old_head, 0),
                          Ev("set_prev", old_head, new_node),
                          Ev("release", old_head, 0),
                          Ev("set_head", NULL, new_node)>>]
       ELSE [heap |-> DropRc(RcClone(a.heap, new_node), tl),
             head |-> new_node, tail |-> new_node,
             log |-> <<Ev("take_head", NULL, NULL),
                       Ev("set_tail", NULL, new_node),
                       Ev("set_head", NULL, new_node)>>]

\* push_front that links the new node to the old head before it sets the
\* old head's prev (Some(old_head.clone()) first, the reciprocal link second)
push_front_next_first(h, hd, tl, elem) ==
    LET a == Node_new(h, elem)
        new_node == a.node
    IN IF hd # NULL
       THEN LET old_head == hd
                h1 == [a.heap EXCEPT ![new_node].next = old_head]
                h2 == DropRc([RcClone(h1, new_node) EXCEPT ![old_head].prev = new_node],
                             h1[old_head].prev)
            IN [heap |-> h2, head |-> new_node, tail |-> tl,
                log |-> <<Ev("take_head", NULL, old_head),
                          Ev("borrow_mut", new_node, 0),
                          Ev("set_next", new_node, old_head),
                          Ev("release", new_node, 0),
                          Ev("borrow_mut", old_head, 0),
                          Ev("set_prev", old_head, new_node),
                          Ev("release", old_head, 0),
                          Ev("set_head", NULL, new_node)>>]
       ELSE [heap |-> DropRc(RcClone(a.heap, new_node), tl),
             head |-> new_node, tail |-> new_node,
             log |-> <<Ev("take_head", NULL, NULL),
                       Ev("set_tail", NULL, new_node),
                       Ev("set_head", NULL, new_node)>>]

\* push_front
push_front(h, hd, tl, elem) ==
    LET a == Node_new(h, elem)
        new_node == a.node
    IN IF hd # NULL
       THEN LET old_head == hd
                \* old_head.borrow_mut().prev = Some(new_node.clone())
                h1 == DropRc([RcClone(a.heap, new_node) EXCEPT ![old_head].prev = new_node],
                             a.heap[old_head].prev)
                \* new_node.borrow_mut().next = Some(old_head)
                h2 == [h1 EXCEPT ![new_node].next = old_head]
            IN [heap |-> h2, head |-> new_node, tail |-> tl,
                log |-> <<Ev("take_head", NULL, old_head),
                          Ev("borrow_mut", old_head, 0),
                          Ev("set_prev", old_head, new_node),
                          Ev("release", old_head, 0),
                          Ev("borrow_mut", new_node, 0),
                          Ev("set_next", new_node, old_head),
                          Ev("release", new_node, 0),
                          Ev("set_head", NULL, new_node)>>]
       ELSE \* self.tail = Some(new_node.clone()); self.head = Some(new_node)
            [heap |-> DropRc(RcClone(a.heap, new_node), tl),
             head |-> new_node, tail |-> new_node,
             log |-> <<Ev("take_head", NULL, NULL),
                       Ev("set_tail", NULL, new_node),
                       Ev("set_head", NULL, new_node)>>]

\* push_back written as a copy of push_front
push_back_as_front(h, hd, tl, elem) == push_front(h, hd, tl, elem)

\* push_back that keeps the old tail's RefMut in a local while it borrows
\* the new node
push_back_overlap(h, hd, tl, elem) ==
    LET a == Node_new(h, elem)
        new_node == a.node
    IN IF tl # NULL
       THEN LET old_tail == tl
                h1 == DropRc([RcClone(a.heap, new_node) EXCEPT ![old_tail].next = new_node],
                             a.heap[old_tail].next)
                h2 == [h1 EXCEPT ![new_node].prev = old_tail]
            IN [heap |-> h2, head |-> hd, tail |-> new_node,
                log |-> <<Ev("take_tail", NULL, old_tail),
                          Ev("borrow_mut", old_tail, 0),
                          Ev("set_next", old_tail, new_node),
                          Ev("borrow_mut", new_node, 0),
                          Ev("set_prev", new_node, old_tail),
                          Ev("release", new_node, 0),
                          Ev("release", old_tail, 0),
                          Ev("set_tail", NULL, new_node)>>]
       ELSE [heap |-> DropRc(RcClone(a.heap, new_node), hd),
             head |-> new_node, tail |-> new_node,
             log |-> <<Ev("take_tail", NULL, NULL),
                       Ev("set_head", NULL, new_node),
                       Ev("set_tail", NULL, new_node)>>]

\* push_back that does not set the old tail's next link
push_back_no_reciprocal(h, hd, tl, elem) ==
    LET a == Node_new(h, elem)
        new_node == a.node
    IN IF tl # NULL
       THEN LET old_tail == tl
                h2 == [a.heap EXCEPT ![new_node].prev = old_tail]
            IN [heap |-> h2, head |-> hd, tail |-> new_node,
                log |-> <<Ev("take_tail", NULL, old_tail),
                          Ev("borrow_mut", new_node, 0),
                          Ev("set_prev", new_node, old_tail),
                          Ev("release", new_node, 0),
                          Ev("set_tail", NULL, new_node)>>]
       ELSE [heap |-> DropRc(RcClone(a.heap, new_node), hd),
             head |-> new_node, tail |-> new_node,
             log |-> <<Ev("take_tail", NULL, NULL),
                       Ev("set_head", NULL, new_node),
                       Ev("set_tail", NULL, new_node)>>]

\* push_back
push_back(h, hd, tl, elem) ==
    LET a == Node_new(h, elem)
        new_node == a.node
    IN IF tl # NULL
       THEN LET old_tail == tl
                \* old_tail.borrow_mut().next = Some(new_node.clone())
                h1 == DropRc([RcClone(a.heap, new_node) EXCEPT ![old_tail].next = new_node],
                             a.heap[old_tail].next)
                \* new_node.borrow_mut().prev = Some(old_tail)
                h2 == [h1 EXCEPT ![new_node].prev = old_tail]
            IN [heap |-> h2, head |-> hd, tail |-> new_node,
                log |-> <<Ev("take_tail", NULL, old_tail),
                          Ev("borrow_mut", old_tail, 0),
                          Ev("set_next", old_tail, new_node),
                          Ev("release", old_tail, 0),
                          Ev("borrow_mut", new_node, 0),
                          Ev("set_prev", new_node, old_tail),
                          Ev("release", new_node, 0),
                          Ev("set_tail", NULL, new_node)>>]
       ELSE \* self.head = Some(new_node.clone()); self.tail = Some(new_node)
            [heap |-> DropRc(RcClone(a.heap, new_node), hd),
             head |-> new_node, tail |-> new_node,
             log |-> <<Ev("take_tail", NULL, NULL),
                       Ev("set_head", NULL, new_node),
                       Ev("set_tail", NULL, new_node)>>]

\* Rc::try_unwrap(node).ok().unwrap().into_inner().elem
\* The Rc is consumed either way; with another owner left the unwrap panics.
try_unwrap_elem(h, n) ==
    [heap |-> DropRc(h, n),
     owners |-> h[n].strong,
     kind |-> IF h[n].strong = 1 THEN "Some" ELSE "Panic",
     val  |-> IF h[n].strong = 1 THEN h[n].elem ELSE 0]

\* pop_front that does not clear the new head's prev link
pop_front_keeps_prev(h, hd, tl) ==
    IF hd = NULL THEN [heap |-> h, head |-> hd, tail |-> tl, kind |-> "None", val |-> 0,
          log |-> <<>>]
    ELSE LET old_head == hd
             next == h[old_head].next
             h1 == [h EXCEPT ![old_head].next = NULL]
             h2 == IF next # NULL THEN h1 ELSE DropRc(h1, tl)
             u == try_unwrap_elem(h2, old_head)
         IN [heap |-> u.heap,
             head |-> next,
             tail |-> IF next # NULL THEN tl ELSE NULL,
             kind |-> u.kind, val |-> u.val,
             log |-> <<Ev("try_unwrap", old_head, u.owners)>>]

\* pop_front without the else branch that clears self.tail
pop_front_keeps_tail(h, hd, tl) ==
    IF hd = NULL THEN [heap |-> h, head |-> hd, tail |-> tl, kind |-> "None", val |-> 0,
          log |-> <<>>]
    ELSE LET old_head == hd
             next == h[old_head].next
             h1 == [h EXCEPT ![old_head].next = NULL]
             h2 == IF next # NULL
                   THEN DropRc([h1 EXCEPT ![next].prev = NULL], h1[next].prev)
                   ELSE h1
             u == try_unwrap_elem(h2, old_head)
         IN [heap |-> u.heap, head |-> next, tail |-> tl,
             kind |-> u.kind, val |-> u.val,
             log |-> <<Ev("try_unwrap", old_head, u.owners)>>]

\* pop_front
pop_front(h, hd, tl) ==
    IF hd = NULL THEN [heap |-> h, head |-> hd, tail |-> tl, kind |-> "None", val |-> 0,
          log |-> <<>>]
    ELSE LET old_head == hd                        \* self.head.take()
             next == h[old_head].next
             h1 == [h EXCEPT ![old_head].next = NULL]   \* .next.take()
             \* Some(next): next.borrow_mut().prev.take(); self.head = Some(next)
             \* None:       self.tail.take()
             h2 == IF next # NULL
                   THEN DropRc([h1 EXCEPT ![next].prev = NULL], h1[next].prev)
                   ELSE DropRc(h1, tl)
             u == try_unwrap_elem(h2, old_head)
         IN [heap |-> u.heap,
             head |-> next,
             tail |-> IF next # NULL THEN tl ELSE NULL,
             kind |-> u.kind, val |-> u.val,
             log |-> <<Ev("try_unwrap", old_head, u.owners)>>]

\* pop_back without the else branch that clears self.head
pop_back_keeps_head(h, hd, tl) ==
    IF tl = NULL THEN [heap |-> h, head |-> hd, tail |-> tl, kind |-> "None", val |-> 0,
          log |-> <<>>]
    ELSE LET old_tail == tl
             prev == h[old_tail].prev
             h1 == [h EXCEPT ![old_tail].prev = NULL]
             h2 == IF prev # NULL
                   THEN DropRc([h1 EXCEPT ![prev].next = NULL], h1[prev].next)
                   ELSE h1
             u == try_unwrap_elem(h2, old_tail)
         IN [heap |-> u.heap, head |-> hd, tail |-> prev,
             kind |-> u.kind, val |-> u.val,
             log |-> <<Ev("try_unwrap", old_tail, u.owners)>>]

\* pop_back that does not clear the new tail's next link
pop_back_keeps_next(h, hd, tl) ==
    IF tl = NULL THEN [heap |-> h, head |-> hd, tail |-> tl, kind |-> "None", val |-> 0,
          log |-> <<>>]
    ELSE LET old_tail == tl
             prev == h[old_tail].prev
             h1 == [h EXCEPT ![old_tail].prev = NULL]
             h2 == IF prev # NULL THEN h1 ELSE DropRc(h1, hd)
             u == try_unwrap_elem(h2, old_tail)
         IN [heap |-> u.heap,
             head |-> IF prev # NULL THEN hd ELSE NULL,
             tail |-> prev,
             kind |-> u.kind, val |-> u.val,
             log |-> <<Ev("try_unwrap", old_tail, u.owners)>>]

\* pop_back
pop_back(h, hd, tl) ==
    IF tl = NULL THEN [heap |-> h, head |-> hd, tail |-> tl, kind |-> "None", val |-> 0,
          log |-> <<>>]
    ELSE LET old_tail == tl                        \* self.tail.take()
             prev == h[old_tail].prev
             h1 == [h EXCEPT ![old_tail].prev = NULL]   \* .prev.take()
             \* Some(prev): prev.borrow_mut().next.take(); self.tail = Some(prev)
             \* None:       self.head.take()
             h2 == IF prev # NULL
                   THEN DropRc([h1 EXCEPT ![prev].next = NULL], h1[prev].next)
                   ELSE DropRc(h1, hd)
             u == try_unwrap_elem(h2, old_tail)
         IN [heap |-> u.heap,
             head |-> IF prev # NULL THEN hd ELSE NULL,
             tail |-> prev,
             kind |-> u.kind, val |-> u.val,
             log |-> <<Ev("try_unwrap", old_tail, u.owners)>>]

\* The four peeks: the endpoint Link is read with as_ref(), the node is
\* borrowed, and the guard is mapped to the elem field.  node is the node
\* the returned guard keeps borrowed (NULL when no guard is returned).
PeekResult(l, b, h) ==
    IF b.ok THEN [heap |-> b.heap, kind |-> "Some", val |-> h[l].elem, node |-> l]
    ELSE [heap |-> h, kind |-> "Panic", val |-> 0, node |-> NULL]

PeekNone(h) == [heap |-> h, kind |-> "None", val |-> 0, node |-> NULL]

\* peek_front with unwrap() on the Link instead of map()
peek_front_unwrap(h, hd, tl) ==
    IF hd = NULL THEN [heap |-> h, kind |-> "Panic", val |-> 0, node |-> NULL]
    ELSE PeekResult(hd, RefCell_borrow(h, hd), h)

peek_front(h, hd, tl) ==
    IF hd = NULL THEN PeekNone(h) ELSE PeekResult(hd, RefCell_borrow(h, hd), h)

\* peek_front_mut written as a copy of peek_back_mut (borrows self.tail)
peek_front_mut_tail(h, hd, tl) ==
    IF tl = NULL THEN PeekNone(h) ELSE PeekResult(tl, RefCell_borrow_mut(h, tl), h)

peek_front_mut(h, hd, tl) ==
    IF hd = NULL THEN PeekNone(h) ELSE PeekResult(hd, RefCell_borrow_mut(h, hd), h)

\* peek_back that clones the tail Link instead of borrowing it with as_ref()
peek_back_clone(h, hd, tl) ==
    IF tl = NULL THEN PeekNone(h)
    ELSE PeekResult(tl, RefCell_borrow(RcClone(h, tl), tl), h)

peek_back(h, hd, tl) ==
    IF tl = NULL THEN PeekNone(h) ELSE PeekResult(tl, RefCell_borrow(h, tl), h)

\* peek_back_mut that takes the exclusive guard without the borrow check
peek_back_mut_unchecked(h, hd, tl) ==
    IF tl = NULL THEN PeekNone(h)
    ELSE PeekResult(tl, [ok |-> TRUE, heap |-> [h EXCEPT ![tl].borrow = -1]], h)

peek_back_mut(h, hd, tl) ==
    IF tl = NULL THEN PeekNone(h) ELSE PeekResult(tl, RefCell_borrow_mut(h, tl), h)

\* List<T> has no Drop impl: when it goes out of scope the compiler's drop
\* glue drops the two fields, head then tail, and nothing else.
drop_glue(h, hd, tl) == DropRc(DropRc(h, hd), tl)

\* IntoIter: next() is pop_front, next_back() is pop_back
IntoIter_next(h, hd, tl) == pop_front(h, hd, tl)

\* next_back written as a copy of next
IntoIter_next_back_front(h, hd, tl) == pop_front(h, hd, tl)

IntoIter_next_back(h, hd, tl) == pop_back(h, hd, tl)

\* ------------------------------------------------- reading the structure
\* The nodes met by following next from l, at most fuel of them.
RECURSIVE WalkNext(_, _, _)
WalkNext(h, l, fuel) ==
    IF l = NULL \/ fuel = 0 THEN <<>>
    ELSE <<l>> \o WalkNext(h, h[l].next, fuel - 1)

RECURSIVE WalkPrev(_, _, _)
WalkPrev(h, l, fuel) ==
    IF l = NULL \/ fuel = 0 THEN <<>>
    ELSE <<l>> \o WalkPrev(h, h[l].prev, fuel - 1)

Reverse(s) == [i \in 1..Len(s) |-> s[Len(s) + 1 - i]]

NodesFwd == WalkNext(heap, head, MaxNodes + 1)
NodesBwd == WalkPrev(heap, tail, MaxNodes + 1)
ElemsOf(h, ns) == [i \in 1..Len(ns) |-> h[ns[i]].elem]
ElemsFwd == ElemsOf(heap, NodesFwd)

\* ---------------------------------------------------------------- Init
Call(op, arg, hnd, kind, val) ==
    [op |-> op, arg |-> arg, h |-> hnd, kind |-> kind, val |-> val]

Init ==
    /\ heap = [n \in Nodes |-> FreeNode]
    /\ head = NULL
    /\ tail = NULL
    /\ phase = "list"
    /\ handles = <<>>
    /\ ret = Call("new", 0, 0, "Unit", 0)
    /\ src = <<>>
    /\ outFront = <<>>
    /\ outBack = <<>>
    /\ trace = <<>>
    /\ sheap = [n \in Nodes |-> SFree]
    /\ s1 = NULL
    /\ s2 = NULL
    /\ slive = <<TRUE, TRUE>>
    /\ it2 = [mode |-> "none", next |-> NULL, refs |-> {}]
    /\ sret = [stack |-> 0, op |-> "new", arg |-> 0, kind |-> "Unit", val |-> 0]
    /\ pheap = [n \in Nodes |-> PFree]
    /\ lists = [i \in Slots |-> IF i = 1 THEN NULL ELSE NoList]
    /\ pret = [op |-> "new", from |-> 0, to |-> 1, arg |-> 0, kind |-> "Unit", val |-> 0]

\* ------------------------------------------------------------- actions
\* push_* and pop_* take &mut self, into_iter and the end of scope take
\* self by value: the compiler accepts them only when no Ref/RefMut
\* returned by a peek (which borrows &self) is still alive.
PushFront ==
    /\ phase = "list" /\ handles = <<>> /\ HasFree(heap)
    /\ \E v \in Values :
         LET r == push_front(heap, head, tail, v)
         IN /\ heap' = r.heap /\ head' = r.head /\ tail' = r.tail
            /\ ret' = Call("push_front", v, 0, "Unit", 0)
            /\ trace' = r.log
    /\ UNCHANGED <<phase, handles, src, outFront, outBack>>
    /\ UNCHANGED <<svars, pvars>>

PushBack ==
    /\ phase = "list" /\ handles = <<>> /\ HasFree(heap)
    /\ \E v \in Values :
         LET r == push_back(heap, head, tail, v)
         IN /\ heap' = r.heap /\ head' = r.head /\ tail' = r.tail
            /\ ret' = Call("push_back", v, 0, "Unit", 0)
            /\ trace' = r.log
    /\ UNCHANGED <<phase, handles, src, outFront, outBack>>
    /\ UNCHANGED <<svars, pvars>>

PopFront ==
    /\ phase = "list" /\ handles = <<>>
    /\ LET r == pop_front(heap, head, tail)
       IN /\ heap' = r.heap /\ head' = r.head /\ tail' = r.tail
          /\ ret' = Call("pop_front", 0, 0, r.kind, r.val)
          /\ trace' = r.log
    /\ UNCHANGED <<phase, handles, src, outFront, outBack>>
    /\ UNCHANGED <<svars, pvars>>

PopBack ==
    /\ phase = "list" /\ handles = <<>>
    /\ LET r == pop_back(heap, head, tail)
       IN /\ heap' = r.heap /\ head' = r.head /\ tail' = r.tail
          /\ ret' = Call("pop_back", 0, 0, r.kind, r.val)
          /\ trace' = r.log
    /\ UNCHANGED <<phase, handles, src, outFront, outBack>>
    /\ UNCHANGED <<svars, pvars>>

Peeked(op, via, mut, r) ==
    /\ heap' = r.heap
    /\ handles' = IF r.node # NULL
                  THEN Append(handles, [node |-> r.node, mut |-> mut, via |-> via])
                  ELSE handles
    /\ ret' = Call(op, 0, 0, r.kind, r.val)
    /\ trace' = <<>>
    /\ UNCHANGED <<head, tail, phase, src, outFront, outBack>>
    /\ UNCHANGED <<svars, pvars>>

PeekFront ==
    /\ phase = "list" /\ Len(handles) < MaxHandles
    /\ Peeked("peek_front", "front", FALSE, peek_front(heap, head, tail))

PeekFrontMut ==
    /\ phase = "list" /\ Len(handles) < MaxHandles
    /\ Peeked("peek_front_mut", "front", TRUE, peek_front_mut(heap, head, tail))

PeekBack ==
    /\ phase = "list" /\ Len(handles) < MaxHandles
    /\ Peeked("peek_back", "back", FALSE, peek_back(heap, head, tail))

PeekBackMut ==
    /\ phase = "list" /\ Len(handles) < MaxHandles
    /\ Peeked("peek_back_mut", "back", TRUE, peek_back_mut(heap, head, tail))

\* *handle = v through a RefMut
WriteHandle ==
    /\ phase = "list"
    /\ \E i \in 1..Len(handles) : \E v \in WValues :
         /\ handles[i].mut
         /\ heap' = [heap EXCEPT ![handles[i].node].elem = v]
         /\ ret' = Call("write", v, i, "Unit", 0)
    /\ trace' = <<>>
    /\ UNCHANGED <<head, tail, phase, handles, src, outFront, outBack>>
    /\ UNCHANGED <<svars, pvars>>

\* Ref::drop / RefMut::drop: the borrow flag goes back by one borrow
ReleaseBorrow(h, hnd) ==
    [h EXCEPT ![hnd.node].borrow = IF hnd.mut THEN 0 ELSE @ - 1]

DropHandle ==
    /\ phase = "list"
    /\ \E i \in 1..Len(handles) :
         /\ heap' = ReleaseBorrow(heap, handles[i])
         /\ handles' = SubSeq(handles, 1, i - 1) \o SubSeq(handles, i + 1, Len(handles))
         /\ ret' = Call("drop_handle", 0, i, "Unit", 0)
    /\ trace' = <<>>
    /\ UNCHANGED <<head, tail, phase, src, outFront, outBack>>
    /\ UNCHANGED <<svars, pvars>>

IntoIter ==
    /\ phase = "list" /\ handles = <<>>
    /\ phase' = "iter"
    /\ src' = ElemsFwd
    /\ ret' = Call("into_iter", 0, 0, "Unit", 0)
    /\ trace' = <<>>
    /\ UNCHANGED <<heap, head, tail, handles, outFront, outBack>>
    /\ UNCHANGED <<svars, pvars>>

IterNext ==
    /\ phase = "iter"
    /\ LET r == IntoIter_next(heap, head, tail)
       IN /\ heap' = r.heap /\ head' = r.head /\ tail' = r.tail
          /\ ret' = Call("next", 0, 0, r.kind, r.val)
          /\ trace' = r.log
          /\ outFront' = IF r.kind = "Some" THEN Append(outFront, r.val) ELSE outFront
    /\ UNCHANGED <<phase, handles, src, outBack>>
    /\ UNCHANGED <<svars, pvars>>

IterNextBack ==
    /\ phase = "iter"
    /\ LET r == IntoIter_next_back(heap, head, tail)
       IN /\ heap' = r.heap /\ head' = r.head /\ tail' = r.tail
          /\ ret' = Call("next_back", 0, 0, r.kind, r.val)
          /\ trace' = r.log
          /\ outBack' = IF r.kind = "Some" THEN Append(outBack, r.val) ELSE outBack
    /\ UNCHANGED <<phase, handles, src, outFront>>
    /\ UNCHANGED <<svars, pvars>>

\* The List, or the IntoIter that wraps it, goes out of scope.
Discard ==
    /\ phase \in {"list", "iter"} /\ handles = <<>>
    /\ heap' = drop_glue(heap, head, tail)
    /\ head' = NULL /\ tail' = NULL
    /\ phase' = "dropped"
    /\ ret' = Call("drop", 0, 0, "Unit", 0)
    /\ trace' = <<>>
    /\ UNCHANGED <<handles, src, outFront, outBack>>
    /\ UNCHANGED <<svars, pvars>>

Next ==
    \/ PushFront \/ PushBack \/ PopFront \/ PopBack
    \/ PeekFront \/ PeekFrontMut \/ PeekBack \/ PeekBackMut
    \/ WriteHandle \/ DropHandle
    \/ IntoIter \/ IterNext \/ IterNextBack
    \/ Discard

Spec == Init /\ [][Next]_vars

\* ------------------------------------- simple_stack_1 / simple_stack_2
\* Both stacks own their nodes through Box: a cell has one owner, and it is
\* freed when the Box is dropped.  The two lists live in one heap.
SHasFree(h) == \E n \in Nodes : ~h[n].used

\* Box::new(Node { elem, next })
Box_new(h, elem, next) ==
    LET n == CHOOSE m \in Nodes :
                 ~h[m].used /\ \A k \in Nodes : ~h[k].used => m <= k
    IN [node |-> n,
        heap |-> [h EXCEPT ![n] = [elem |-> elem, next |-> next, used |-> TRUE]]]

\* Dropping a Link: the Box is freed after the Node in it, and so its next.
RECURSIVE Box_drop(_, _)
Box_drop(h, l) ==
    IF l = NULL THEN h ELSE Box_drop([h EXCEPT ![l] = SFree], h[l].next)

\* simple_stack_1::List::push
\* new_node = Box::new(Node { elem, next: self.head.take() }); self.head = Some(new_node)
S1_push(h, hd, elem) ==
    LET b == Box_new(h, elem, hd)
    IN [heap |-> b.heap, head |-> b.node]

\* pop that returns the element without putting node.next back into head
S1_pop_drops_rest(h, hd) ==
    IF hd = NULL THEN [heap |-> h, head |-> NULL, kind |-> "None", val |-> 0]
    ELSE [heap |-> Box_drop(h, hd), head |-> NULL,
          kind |-> "Some", val |-> h[hd].elem]

\* simple_stack_1::List::pop
\* self.head.take().map(|node| { self.head = node.next; node.elem })
S1_pop(h, hd) ==
    IF hd = NULL THEN [heap |-> h, head |-> NULL, kind |-> "None", val |-> 0]
    ELSE [heap |-> [h EXCEPT ![hd] = SFree], head |-> h[hd].next,
          kind |-> "Some", val |-> h[hd].elem]

\* simple_stack_2::List::push
S2_push(h, hd, elem) ==
    LET b == Box_new(h, elem, hd)
    IN [heap |-> b.heap, head |-> b.node]

\* simple_stack_2::List::pop
\* self.head.take().map(|boxed_node| { self.head = boxed_node.next; boxed_node.elem })
S2_pop(h, hd) ==
    IF hd = NULL THEN [heap |-> h, head |-> NULL, kind |-> "None", val |-> 0]
    ELSE [heap |-> [h EXCEPT ![hd] = SFree], head |-> h[hd].next,
          kind |-> "Some", val |-> h[hd].elem]

\* simple_stack_1: impl Drop for List
\* cur_link = self.head.take(); while let Some(mut boxed_node) = cur_link
\*     { cur_link = boxed_node.next.take(); }
RECURSIVE S1_drop(_, _)
S1_drop(h, cur_link) ==
    IF cur_link = NULL THEN h
    ELSE S1_drop([h EXCEPT ![cur_link] = SFree], h[cur_link].next)

\* simple_stack_2::List::pop_node
\* self.head.take().map(|boxed_node| { let mut node = *boxed_node;
\*                                     self.head = node.next.take(); node })
\* The Node that is returned has its next set to None.
S2_pop_node(h, hd) ==
    IF hd = NULL
    THEN [heap |-> h, head |-> NULL, kind |-> "None", val |-> 0, next |-> NULL]
    ELSE [heap |-> [h EXCEPT ![hd] = SFree], head |-> h[hd].next,
          kind |-> "Some", val |-> h[hd].elem, next |-> NULL]

\* simple_stack_2::List::peek
\* self.head.as_ref().map(|node| &node.elem)
S2_peek(h, hd) ==
    IF hd = NULL THEN [kind |-> "None", val |-> 0, node |-> NULL]
    ELSE [kind |-> "Some", val |-> h[hd].elem, node |-> hd]

\* simple_stack_2::List::peek_mut
\* self.head.as_mut().map(|node| &mut node.elem)
S2_peek_mut(h, hd) ==
    IF hd = NULL THEN [kind |-> "None", val |-> 0, node |-> NULL]
    ELSE [kind |-> "Some", val |-> h[hd].elem, node |-> hd]

\* simple_stack_2::List::iter / iter_mut: the cursor starts at the head
S2_iter(hd) == hd

S2_iter_mut(hd) == hd

\* simple_stack_2: Iter::next
\* self.next.map(|node| { self.next = node.next.as_deref(); &node.elem })
Iter_next(h, nx) ==
    IF nx = NULL THEN [kind |-> "None", val |-> 0, node |-> NULL, next |-> NULL]
    ELSE [kind |-> "Some", val |-> h[nx].elem, node |-> nx, next |-> h[nx].next]

\* simple_stack_2: IterMut::next
\* self.next.take().map(|node| { self.next = node.next.as_deref_mut(); &mut node.elem })
IterMut_next(h, nx) ==
    IF nx = NULL THEN [kind |-> "None", val |-> 0, node |-> NULL, next |-> NULL]
    ELSE [kind |-> "Some", val |-> h[nx].elem, node |-> nx, next |-> h[nx].next]

\* simple_stack_2: IntoIter::next is pop
IntoIter2_next(h, hd) == S2_pop(h, hd)

\* simple_stack_2: impl Drop for List
RECURSIVE S2_drop(_, _)
S2_drop(h, cur_link) ==
    IF cur_link = NULL THEN h
    ELSE S2_drop([h EXCEPT ![cur_link] = SFree], h[cur_link].next)

\* The elements met by following next from l.
RECURSIVE SWalk(_, _, _)
SWalk(h, l, fuel) ==
    IF l = NULL \/ fuel = 0 THEN <<>>
    ELSE <<h[l].elem>> \o SWalk(h, h[l].next, fuel - 1)

SElems(h, l) == SWalk(h, l, MaxNodes + 1)

SCall(stack, op, arg, kind, val) ==
    [stack |-> stack, op |-> op, arg |-> arg, kind |-> kind, val |-> val]

NoIter == [mode |-> "none", next |-> NULL, refs |-> {}]

\* The methods that take &mut self, or self, are accepted by the compiler
\* only while no iterator and no reference into the list is alive; those
\* that take &self also while an Iter is.
S1Push ==
    /\ slive[1] /\ SHasFree(sheap)
    /\ \E v \in Values :
         LET r == S1_push(sheap, s1, v)
         IN /\ sheap' = r.heap /\ s1' = r.head
            /\ sret' = SCall(1, "push", v, "Unit", 0)
    /\ UNCHANGED <<s2, slive, it2, dvars, pvars>>

S1Pop ==
    /\ slive[1]
    /\ LET r == S1_pop(sheap, s1)
       IN /\ sheap' = r.heap /\ s1' = r.head
          /\ sret' = SCall(1, "pop", 0, r.kind, r.val)
    /\ UNCHANGED <<s2, slive, it2, dvars, pvars>>

\* the stack_1 List goes out of scope
S1Drop ==
    /\ slive[1]
    /\ sheap' = S1_drop(sheap, s1)
    /\ s1' = NULL
    /\ slive' = [slive EXCEPT ![1] = FALSE]
    /\ sret' = SCall(1, "drop", 0, "Unit", 0)
    /\ UNCHANGED <<s2, it2, dvars, pvars>>

\* let mut list = simple_stack_1::List::new()
S1New ==
    /\ ~slive[1]
    /\ s1' = NULL
    /\ slive' = [slive EXCEPT ![1] = TRUE]
    /\ sret' = SCall(1, "new", 0, "Unit", 0)
    /\ UNCHANGED <<sheap, s2, it2, dvars, pvars>>

S2Push ==
    /\ slive[2] /\ it2.mode = "none" /\ SHasFree(sheap)
    /\ \E v \in Values :
         LET r == S2_push(sheap, s2, v)
         IN /\ sheap' = r.heap /\ s2' = r.head
            /\ sret' = SCall(2, "push", v, "Unit", 0)
    /\ UNCHANGED <<s1, slive, it2, dvars, pvars>>

S2Pop ==
    /\ slive[2] /\ it2.mode = "none"
    /\ LET r == S2_pop(sheap, s2)
       IN /\ sheap' = r.heap /\ s2' = r.head
          /\ sret' = SCall(2, "pop", 0, r.kind, r.val)
    /\ UNCHANGED <<s1, slive, it2, dvars, pvars>>

S2PopNode ==
    /\ slive[2] /\ it2.mode = "none"
    /\ LET r == S2_pop_node(sheap, s2)
       IN /\ sheap' = r.heap /\ s2' = r.head
          /\ sret' = SCall(2, "pop_node", r.next, r.kind, r.val)
    /\ UNCHANGED <<s1, slive, it2, dvars, pvars>>

S2Peek ==
    /\ slive[2] /\ it2.mode \in {"none", "iter"}
    /\ LET r == S2_peek(sheap, s2)
       IN sret' = SCall(2, "peek", 0, r.kind, r.val)
    /\ UNCHANGED <<sheap, s1, s2, slive, it2, dvars, pvars>>

\* list.peek_mut(), and *top = v through the &mut T it returns: the
\* reference borrows the list exclusively, nothing can come in between.
S2PeekMut ==
    /\ slive[2] /\ it2.mode = "none"
    /\ LET r == S2_peek_mut(sheap, s2)
       IN \E v \in Values :
            /\ sheap' = IF r.node # NULL THEN [sheap EXCEPT ![r.node].elem = v]
                        ELSE sheap
            /\ sret' = SCall(2, "peek_mut", IF r.node # NULL THEN v ELSE 0, r.kind, r.val)
    /\ UNCHANGED <<s1, s2, slive, it2, dvars, pvars>>

S2Iter ==
    /\ slive[2] /\ it2.mode = "none"
    /\ it2' = [mode |-> "iter", next |-> S2_iter(s2), refs |-> {}]
    /\ sret' = SCall(2, "iter", 0, "Unit", 0)
    /\ UNCHANGED <<sheap, s1, s2, slive, dvars, pvars>>

S2IterNext ==
    /\ it2.mode = "iter"
    /\ LET r == Iter_next(sheap, it2.next)
       IN /\ it2' = [it2 EXCEPT !.next = r.next]
          /\ sret' = SCall(2, "iter_next", 0, r.kind, r.val)
    /\ UNCHANGED <<sheap, s1, s2, slive, dvars, pvars>>

S2IterMut ==
    /\ slive[2] /\ it2.mode = "none"
    /\ it2' = [mode |-> "iter_mut", next |-> S2_iter_mut(s2), refs |-> {}]
    /\ sret' = SCall(2, "iter_mut", 0, "Unit", 0)
    /\ UNCHANGED <<sheap, s1, s2, slive, dvars, pvars>>

S2IterMutNext ==
    /\ it2.mode = "iter_mut"
    /\ LET r == IterMut_next(sheap, it2.next)
       IN /\ it2' = [it2 EXCEPT !.next = r.next,
                                !.refs = IF r.node # NULL THEN @ \cup {r.node} ELSE @]
          /\ sret' = SCall(2, "iter_mut_next", 0, r.kind, r.val)
    /\ UNCHANGED <<sheap, s1, s2, slive, dvars, pvars>>

\* *x = v through a &mut T that IterMut::next returned
S2RefWrite ==
    /\ it2.mode = "iter_mut"
    /\ \E n \in it2.refs : \E v \in Values :
         /\ sheap' = [sheap EXCEPT ![n].elem = v]
         /\ sret' = SCall(2, "ref_write", v, "Unit", 0)
    /\ UNCHANGED <<s1, s2, slive, it2, dvars, pvars>>

\* the Iter, or the IterMut and the references it handed out, are dropped
S2IterEnd ==
    /\ it2.mode \in {"iter", "iter_mut"}
    /\ it2' = NoIter
    /\ sret' = SCall(2, "iter_end", 0, "Unit", 0)
    /\ UNCHANGED <<sheap, s1, s2, slive, dvars, pvars>>

\* list.into_iter(): IntoIter(self)
S2IntoIter ==
    /\ slive[2] /\ it2.mode = "none"
    /\ it2' = [mode |-> "into_iter", next |-> NULL, refs |-> {}]
    /\ sret' = SCall(2, "into_iter", 0, "Unit", 0)
    /\ UNCHANGED <<sheap, s1, s2, slive, dvars, pvars>>

S2IntoIterNext ==
    /\ it2.mode = "into_iter"
    /\ LET r == IntoIter2_next(sheap, s2)
       IN /\ sheap' = r.heap /\ s2' = r.head
          /\ sret' = SCall(2, "into_iter_next", 0, r.kind, r.val)
    /\ UNCHANGED <<s1, slive, it2, dvars, pvars>>

\* the stack_2 List, or the IntoIter that wraps it, goes out of scope
S2Drop ==
    /\ slive[2] /\ it2.mode \in {"none", "into_iter"}
    /\ sheap' = S2_drop(sheap, s2)
    /\ s2' = NULL
    /\ slive' = [slive EXCEPT ![2] = FALSE]
    /\ it2' = NoIter
    /\ sret' = SCall(2, "drop", 0, "Unit", 0)
    /\ UNCHANGED <<s1, dvars, pvars>>

\* let mut list = simple_stack_2::List::new()
S2New ==
    /\ ~slive[2]
    /\ s2' = NULL
    /\ slive' = [slive EXCEPT ![2] = TRUE]
    /\ sret' = SCall(2, "new", 0, "Unit", 0)
    /\ UNCHANGED <<sheap, s1, it2, dvars, pvars>>

NextStack ==
    \/ S1Push \/ S1Pop \/ S1Drop \/ S1New
    \/ S2Push \/ S2Pop \/ S2PopNode \/ S2Peek \/ S2PeekMut
    \/ S2Iter \/ S2IterNext \/ S2IterMut \/ S2IterMutNext \/ S2RefWrite \/ S2IterEnd
    \/ S2IntoIter \/ S2IntoIterNext
    \/ S2Drop \/ S2New

SpecStack == Init /\ [][NextStack]_vars

\* ------------------------------------------------------ simple_stack_3
\* The persistent list: nodes are Rc<Node<T>> and never mutated; a node is
\* owned by the List values whose head it is and by the nodes whose next it
\* is.
PHasFree(h) == \E n \in Nodes : h[n].strong = 0

\* Link::clone (Option<Rc<..>>::clone)
PClone(h, l) == IF l = NULL THEN h ELSE [h EXCEPT ![l].strong = @ + 1]

\* List::prepend
\* List { head: Some(Rc::new(Node { elem, next: self.head.clone() })) }
P_prepend(h, hd, elem) ==
    LET h1 == PClone(h, hd)
        n == CHOOSE m \in Nodes :
                 h1[m].strong = 0 /\ \A k \in Nodes : h1[k].strong = 0 => m <= k
    IN [heap |-> [h1 EXCEPT ![n] = [elem |-> elem, next |-> hd, strong |-> 1]],
        head |-> n]

\* tail that clones the head link itself instead of the head node's next
P_tail_self(h, hd) == [heap |-> PClone(h, hd), head |-> hd]

\* List::tail
\* List { head: self.head.as_ref().and_then(|node| node.next.clone()) }
P_tail(h, hd) ==
    IF hd = NULL THEN [heap |-> h, head |-> NULL]
    ELSE [heap |-> PClone(h, h[hd].next), head |-> h[hd].next]

\* List::head
\* self.head.as_ref().map(|node| &node.elem)
P_head(h, hd) ==
    IF hd = NULL THEN [kind |-> "None", val |-> 0]
    ELSE [kind |-> "Some", val |-> h[hd].elem]

\* drop that goes on down the chain after a node that has another owner
RECURSIVE P_drop_no_break(_, _)
P_drop_no_break(h, cur_link) ==
    IF cur_link = NULL THEN h
    ELSE IF h[cur_link].strong = 1
         THEN P_drop_no_break([h EXCEPT ![cur_link] = PFree], h[cur_link].next)
         ELSE P_drop_no_break([h EXCEPT ![cur_link].strong = @ - 1], h[cur_link].next)

\* impl Drop for List: cur_link = self.head.take(); while let Some(node):
\* Rc::try_unwrap(node) succeeds for a sole owner, the node is taken apart
\* and the walk goes on with its next; otherwise the Rc is given up and the
\* loop breaks.
RECURSIVE P_drop(_, _)
P_drop(h, cur_link) ==
    IF cur_link = NULL THEN h
    ELSE IF h[cur_link].strong = 1
         THEN P_drop([h EXCEPT ![cur_link] = PFree], h[cur_link].next)
         ELSE [h EXCEPT ![cur_link].strong = @ - 1]

\* The nodes met by following next from l.
RECURSIVE PWalk(_, _, _)
PWalk(h, l, fuel) ==
    IF l = NULL \/ fuel = 0 THEN <<>>
    ELSE <<l>> \o PWalk(h, h[l].next, fuel - 1)

PNodes(h, l) == PWalk(h, l, MaxNodes + 1)
PElems(h, l) == LET ns == PNodes(h, l) IN [i \in 1..Len(ns) |-> h[ns[i]].elem]

Held3 == {i \in Slots : lists[i] # NoList}

PCall(op, from, to, arg, kind, val) ==
    [op |-> op, from |-> from, to |-> to, arg |-> arg, kind |-> kind, val |-> val]

\* let l = List::new()
PNew ==
    /\ \E j \in Slots \ Held3 :
         /\ lists' = [lists EXCEPT ![j] = NULL]
         /\ pret' = PCall("new", 0, j, 0, "Unit", 0)
    /\ UNCHANGED <<pheap, dvars, svars>>

\* let l2 = l.prepend(x)
PPrepend ==
    /\ PHasFree(pheap)
    /\ \E i \in Held3 : \E j \in Slots \ Held3 : \E x \in Values :
         LET r == P_prepend(pheap, lists[i], x)
         IN /\ pheap' = r.heap
            /\ lists' = [lists EXCEPT ![j] = r.head]
            /\ pret' = PCall("prepend", i, j, x, "Unit", 0)
    /\ UNCHANGED <<dvars, svars>>

\* let l2 = l.tail()
PTail ==
    /\ \E i \in Held3 : \E j \in Slots \ Held3 :
         LET r == P_tail(pheap, lists[i])
         IN /\ pheap' = r.heap
            /\ lists' = [lists EXCEPT ![j] = r.head]
            /\ pret' = PCall("tail", i, j, 0, "Unit", 0)
    /\ UNCHANGED <<dvars, svars>>

\* l.head()
PHead ==
    /\ \E i \in Held3 :
         LET r == P_head(pheap, lists[i])
         IN pret' = PCall("head", i, 0, 0, r.kind, r.val)
    /\ UNCHANGED <<pheap, lists, dvars, svars>>

\* l goes out of scope: Drop::drop, then the (now empty) head field
PDrop ==
    /\ \E i \in Held3 :
         /\ pheap' = P_drop(pheap, lists[i])
         /\ lists' = [lists EXCEPT ![i] = NoList]
         /\ pret' = PCall("drop", i, 0, 0, "Unit", 0)
    /\ UNCHANGED <<dvars, svars>>

NextPersist == PNew \/ PPrepend \/ PTail \/ PHead \/ PDrop

SpecPersist == Init /\ [][NextPersist]_vars

\* ------------------------------------------------------------- claims
Absent == head = NULL /\ tail = NULL
PeekOps == {"peek_front", "peek_back", "peek_front_mut", "peek_back_mut"}
PopOps == {"pop_front", "pop_back"}
Last(s) == s[Len(s)]
Front(s) == SubSeq(s, 1, Len(s) - 1)
NodeSet(ns) == {ns[i] : i \in 1..Len(ns)}

\* C1: when a deque of two or more elements goes out of scope, every node's
\* strong count is zero afterwards.
C1_DiscardStep ==
    (phase # "dropped" /\ phase' = "dropped" /\ Len(NodesFwd) >= 2)
        => \A n \in Nodes : heap'[n].strong = 0
C1_NoLeakOnDiscard == [][C1_DiscardStep]_vars

\* C2: between calls, a.next = b exactly when b.prev = a, and the head node
\* has no prev and the tail node has no next.
C2_MutualInverse ==
    phase # "dropped" =>
        /\ \A a, b \in Nodes : (heap[a].next = b) <=> (heap[b].prev = a)
        /\ head # NULL => heap[head].prev = NULL
        /\ tail # NULL => heap[tail].next = NULL

C2_Witness ==
    /\ ret.op = "pop_front" /\ ret.kind = "Some"
    /\ Len(NodesFwd) = 2 /\ heap[head].next = tail /\ heap[tail].prev = head

\* C3: head is absent iff tail is absent iff the deque holds no node, and a
\* pop on a one-element deque clears both.
C3_BothOrNeither ==
    phase # "dropped" =>
        /\ (head = NULL) <=> (tail = NULL)
        /\ (head = NULL) <=> (Live(heap) = {})
C3_PopLastStep ==
    (phase = "list" /\ Cardinality(Live(heap)) = 1 /\ ret'.op \in PopOps)
        => (head' = NULL /\ tail' = NULL)
C3_EmptyIffAbsent == [](C3_BothOrNeither) /\ [][C3_PopLastStep]_vars

C3_Witness ==
    /\ ret.op = "pop_front" /\ ret.kind = "Some" /\ phase = "list"
    /\ Absent /\ Live(heap) = {}

\* C4: the deque is the sequence read from head: push_front prepends,
\* push_back appends, pop_front/pop_back remove and return the first/last
\* element, peek_front/peek_back show the first/last element.
C4_Step ==
    phase = "list" =>
        /\ ret'.op = "push_front" => ElemsFwd' = <<ret'.arg>> \o ElemsFwd
        /\ ret'.op = "push_back" => ElemsFwd' = Append(ElemsFwd, ret'.arg)
        /\ (ret'.op = "pop_front" /\ ElemsFwd # <<>>) =>
              /\ ret'.kind = "Some" /\ ret'.val = Head(ElemsFwd)
              /\ ElemsFwd' = Tail(ElemsFwd)
        /\ (ret'.op = "pop_back" /\ ElemsFwd # <<>>) =>
              /\ ret'.kind = "Some" /\ ret'.val = Last(ElemsFwd)
              /\ ElemsFwd' = Front(ElemsFwd)
        /\ (ret'.op \in {"peek_front", "peek_front_mut"} /\ ret'.kind = "Some") =>
              /\ ret'.val = Head(ElemsFwd) /\ ElemsFwd' = ElemsFwd
        /\ (ret'.op \in {"peek_back", "peek_back_mut"} /\ ret'.kind = "Some") =>
              /\ ret'.val = Last(ElemsFwd) /\ ElemsFwd' = ElemsFwd
C4_SequenceRefinement == [][C4_Step]_vars

C4_Witness ==
    /\ ret.op = "pop_back" /\ ret.kind = "Some" /\ ret.val = 1
    /\ ElemsFwd = <<3, 2>>

\* C5: on an empty deque the two pops and the four peeks return None, do not
\* panic and leave the deque empty.
C5_Step ==
    (phase = "list" /\ Absent /\ ret'.op \in PopOps \cup PeekOps)
        => /\ ret'.kind = "None"
           /\ head' = NULL /\ tail' = NULL
           /\ heap' = heap /\ handles' = handles
C5_EmptyReturnsNone == [][C5_Step]_vars

C5_Witness ==
    /\ ret.op = "peek_back_mut" /\ ret.kind = "None"
    /\ Absent /\ handles = <<>> /\ phase = "list"

\* C6: a peek of a node on which a RefMut is still held panics and hands out
\* nothing; no node is under a RefMut together with any other guard.
HandlesOn(n) == {i \in 1..Len(handles) : handles[i].node = n}
MutHandlesOn(n) == {i \in HandlesOn(n) : handles[i].mut}
C6_Discipline ==
    \A n \in Nodes :
        /\ Cardinality(MutHandlesOn(n)) <= 1
        /\ MutHandlesOn(n) # {} => HandlesOn(n) = MutHandlesOn(n)
C6_Target == IF ret'.op \in {"peek_front", "peek_front_mut"} THEN head ELSE tail
C6_Step ==
    (ret'.op \in PeekOps /\ C6_Target # NULL /\ MutHandlesOn(C6_Target) # {})
        => /\ ret'.kind = "Panic"
           /\ handles' = handles /\ heap' = heap
C6_ExclusiveBorrowRejects == [](C6_Discipline) /\ [][C6_Step]_vars

C6_Witness ==
    /\ ret.op = "peek_back" /\ ret.kind = "Panic"
    /\ Len(handles) = 1 /\ handles[1].mut /\ handles[1].via = "front"
    /\ head = tail

\* C7: a write through the RefMut of peek_front_mut (peek_back_mut) replaces
\* the first (last) element and nothing else; dropping the guard releases
\* the borrow and keeps the elements; the next peek_front (peek_back) then
\* succeeds with the element now in front (at the back), and pop_front
\* (pop_back) returns it.
C7_End(via, s) == IF via = "front" THEN Head(s) ELSE Last(s)
C7_Rest(via, s) == IF via = "front" THEN Tail(s) ELSE Front(s)
C7_WriteStep ==
    ret'.op = "write" =>
        LET via == handles[ret'.h].via
        IN /\ Len(ElemsFwd') = Len(ElemsFwd)
           /\ C7_End(via, ElemsFwd') = ret'.arg
           /\ C7_Rest(via, ElemsFwd') = C7_Rest(via, ElemsFwd)
C7_DropStep ==
    ret'.op = "drop_handle" =>
        /\ ElemsFwd' = ElemsFwd
        /\ handles[ret'.h].mut => heap'[handles[ret'.h].node].borrow = 0
C7_ReadStep ==
    /\ (ret'.op = "peek_front" /\ head # NULL /\ heap[head].borrow = 0)
          => (ret'.kind = "Some" /\ ret'.val = heap[head].elem)
    /\ (ret'.op = "peek_back" /\ tail # NULL /\ heap[tail].borrow = 0)
          => (ret'.kind = "Some" /\ ret'.val = heap[tail].elem)
    /\ (ret'.op = "pop_front" /\ head # NULL)
          => (ret'.kind = "Some" /\ ret'.val = heap[head].elem)
    /\ (ret'.op = "pop_back" /\ tail # NULL)
          => (ret'.kind = "Some" /\ ret'.val = heap[tail].elem)
C7_WriteThroughPeekMut == [][phase = "list" => C7_WriteStep /\ C7_DropStep /\ C7_ReadStep]_vars

\* MaxVal + 1 is never pushed: it can only come from a write.
C7_Witness ==
    /\ ret.op = "pop_front" /\ ret.kind = "Some" /\ ret.val = MaxVal + 1
    /\ handles = <<>> /\ Len(ElemsFwd) = 1

\* C8: whatever the interleaving of next() and next_back(), what next() has
\* yielded, then what is still in the deque, then what next_back() has
\* yielded in reverse, is the deque as it was at into_iter(); no call
\* panics and None is returned only when nothing is left.
C8_EachOnce ==
    phase = "iter" =>
        /\ outFront \o ElemsFwd \o Reverse(outBack) = src
        /\ ret.kind # "Panic"
        /\ ret.kind = "None" => outFront \o Reverse(outBack) = src

C8_Witness ==
    /\ phase = "iter" /\ src = <<1, 2, 3>>
    /\ outFront = <<1, 2>> /\ outBack = <<3>>
    /\ ret.op = "next_back" /\ ret.kind = "None"

\* C9: after next() or next_back() returned None every later next() and
\* next_back() returns None, and no more elements are yielded than the
\* deque held at into_iter().
C9_Finite == phase = "iter" => Len(outFront) + Len(outBack) <= Len(src)
C9_Step ==
    (phase = "iter" /\ ret.kind = "None" /\ ret'.op \in {"next", "next_back"})
        => ret'.kind = "None"
C9_IdempotentExhaustion == [](C9_Finite) /\ [][C9_Step]_vars

C9_Witness ==
    /\ phase = "iter" /\ ret.op = "next" /\ ret.kind = "None"
    /\ Len(src) = 2 /\ Len(outFront) = 1 /\ Len(outBack) = 1

\* C10: the walk along next from head and the walk along prev from tail
\* both end, visit exactly the nodes of the deque, in reverse order of each
\* other.
C10_WalksAgree ==
    phase # "dropped" =>
        /\ Cardinality(NodeSet(NodesFwd)) = Len(NodesFwd)
        /\ Cardinality(NodeSet(NodesBwd)) = Len(NodesBwd)
        /\ NodesBwd = Reverse(NodesFwd)
        /\ NodeSet(NodesFwd) = Live(heap)

C10_Witness ==
    /\ ret.op = "push_back" /\ Len(NodesFwd) = 3
    /\ NodesBwd = Reverse(NodesFwd) /\ NodesFwd[1] # 1

\* C13: when pop_front / pop_back (also reached through next / next_back)
\* extracts the value, the detached node has exactly one owner left, so the
\* sole-owner check never panics.
TakeOps == PopOps \cup {"next", "next_back"}
C13_Endpoint == IF ret'.op \in {"pop_front", "next"} THEN head ELSE tail
C13_Step ==
    (ret'.op \in TakeOps /\ C13_Endpoint # NULL)
        => /\ trace' = <<Ev("try_unwrap", C13_Endpoint, 1)>>
           /\ ret'.kind = "Some"
C13_NoPanic == ret.op \in TakeOps => ret.kind # "Panic"
C13_SoleOwnerAtExtraction == [](C13_NoPanic) /\ [][C13_Step]_vars

C13_Witness ==
    /\ ret.op = "pop_back" /\ ret.kind = "Some"
    /\ Len(trace) = 1 /\ trace[1].ev = "try_unwrap" /\ trace[1].val = 1
    /\ Len(NodesFwd) = 2

\* C14 as stated: push_front on a non-empty deque writes the new node's next,
\* then the old head's prev, then head; push_back writes the new node's
\* prev, then the old tail's next, then tail.
Pos(t, ev) == CHOOSE i \in 1..Len(t) : t[i].ev = ev
OnNonEmpty == ret.op \in {"push_front", "push_back"} /\ trace[1].val # NULL
C14_StatedOrder ==
    OnNonEmpty =>
        IF ret.op = "push_front"
        THEN /\ Pos(trace, "set_next") < Pos(trace, "set_prev")
             /\ Pos(trace, "set_prev") < Pos(trace, "set_head")
        ELSE /\ Pos(trace, "set_prev") < Pos(trace, "set_next")
             /\ Pos(trace, "set_next") < Pos(trace, "set_tail")

\* C14 amended: push_front on a non-empty deque first sets the old head's
\* prev to the new node, then the new node's next to the old head, then
\* head to the new node; push_back first sets the old tail's next, then the
\* new node's prev, then tail.
C14_LinkWriteOrder ==
    OnNonEmpty =>
        LET old == trace[1].val
            new == IF ret.op = "push_front" THEN head ELSE tail
        IN IF ret.op = "push_front"
           THEN /\ Pos(trace, "set_prev") < Pos(trace, "set_next")
                /\ Pos(trace, "set_next") < Pos(trace, "set_head")
                /\ trace[Pos(trace, "set_prev")] = Ev("set_prev", old, new)
                /\ trace[Pos(trace, "set_next")] = Ev("set_next", new, old)
                /\ trace[Pos(trace, "set_head")] = Ev("set_head", NULL, new)
           ELSE /\ Pos(trace, "set_next") < Pos(trace, "set_prev")
                /\ Pos(trace, "set_prev") < Pos(trace, "set_tail")
                /\ trace[Pos(trace, "set_next")] = Ev("set_next", old, new)
                /\ trace[Pos(trace, "set_prev")] = Ev("set_prev", new, old)
                /\ trace[Pos(trace, "set_tail")] = Ev("set_tail", NULL, new)

C14_Witness ==
    /\ ret.op = "push_front" /\ trace[1].val # NULL
    /\ Len(NodesFwd) = 3
    /\ trace[3] = Ev("set_prev", NodesFwd[2], head)
    /\ trace[6] = Ev("set_next", head, NodesFwd[2])

\* C15: in push_front and push_back the RefMut borrows never overlap: after
\* every step of the call at most one node is exclusively borrowed, each
\* link of a node is written while that node is the one borrowed, and no
\* borrow is left when the call returns.
Held(t, k) ==
    {n \in Nodes : \E i \in 1..k :
        /\ t[i] = Ev("borrow_mut", n, 0)
        /\ \A j \in (i + 1)..k : t[j] # Ev("release", n, 0)}
C15_OneBorrowAtATime ==
    ret.op \in {"push_front", "push_back"} =>
        /\ \A k \in 1..Len(trace) :
              /\ Cardinality(Held(trace, k)) <= 1
              /\ trace[k].ev \in {"set_next", "set_prev"} => Held(trace, k) = {trace[k].node}
        /\ Held(trace, Len(trace)) = {}
        /\ \A n \in Nodes : heap[n].borrow = 0

C15_Witness ==
    /\ ret.op = "push_back" /\ Len(NodesFwd) = 2
    /\ Held(trace, 2) = {head} /\ Held(trace, 5) = {tail}
    /\ Held(trace, 4) = {}

\* C16: the four peeks, and dropping or writing through the guard they
\* return, change neither head, tail, any next or prev link, the set of
\* nodes nor any strong count; elements change only by a write through a
\* RefMut, and only the element of the node that RefMut borrows.
C16_SameShape ==
    /\ head' = head /\ tail' = tail
    /\ Live(heap') = Live(heap)
    /\ \A n \in Nodes :
          /\ heap'[n].next = heap[n].next
          /\ heap'[n].prev = heap[n].prev
          /\ heap'[n].strong = heap[n].strong
C16_Step ==
    /\ ret'.op \in PeekOps \cup {"drop_handle"} =>
          /\ C16_SameShape
          /\ \A n \in Nodes : heap'[n].elem = heap[n].elem
    /\ ret'.op = "write" =>
          /\ C16_SameShape
          /\ handles[ret'.h].mut
          /\ \A n \in Nodes \ {handles[ret'.h].node} : heap'[n].elem = heap[n].elem
C16_PeekFrame == [][phase = "list" => C16_Step]_vars

C16_Witness ==
    /\ ret.op = "drop_handle" /\ handles = <<>>
    /\ Len(NodesFwd) = 2 /\ heap[tail].elem = MaxVal + 1
    /\ heap[head].strong = 2 /\ heap[tail].strong = 2

\* C17: while the deque is alive the allocated nodes are exactly the nodes
\* of the deque, as many as it has elements; a push allocates exactly one
\* node and a pop that returns a value frees exactly the endpoint node.
C17_LiveIsDeque ==
    phase # "dropped" =>
        /\ Cardinality(Live(heap)) = Len(ElemsFwd)
        /\ \A n \in Live(heap) : \E i \in 1..Len(NodesFwd) : NodesFwd[i] = n
C17_Step ==
    /\ ret'.op \in {"push_front", "push_back"} =>
          \E n \in Nodes \ Live(heap) : Live(heap') = Live(heap) \cup {n}
    /\ (ret'.op \in {"pop_front", "next"} /\ head # NULL) =>
          /\ Live(heap') = Live(heap) \ {head} /\ heap'[head].strong = 0
    /\ (ret'.op \in {"pop_back", "next_back"} /\ tail # NULL) =>
          /\ Live(heap') = Live(heap) \ {tail} /\ heap'[tail].strong = 0
C17_LiveNodesAreElements == [](C17_LiveIsDeque) /\ [][C17_Step]_vars

C17_Witness ==
    /\ ret.op = "pop_front" /\ ret.kind = "Some"
    /\ Cardinality(Live(heap)) = 2 /\ Len(ElemsFwd) = 2
    /\ trace[1].node \notin Live(heap)

\* C18: every node of the deque has strong count 2: one owner on the front
\* side (the head slot for the head node, otherwise exactly one node's next
\* link) and one on the back side (the tail slot for the tail node,
\* otherwise exactly one node's prev link).
NextOwners(n) == {m \in Nodes : heap[m].next = n}
PrevOwners(n) == {m \in Nodes : heap[m].prev = n}
C18_TwoOwners ==
    phase # "dropped" =>
        \A n \in Live(heap) :
            /\ heap[n].strong = 2
            /\ IF head = n THEN NextOwners(n) = {}
               ELSE Cardinality(NextOwners(n)) = 1
            /\ IF tail = n THEN PrevOwners(n) = {}
               ELSE Cardinality(PrevOwners(n)) = 1

C18_Witness ==
    /\ Len(NodesFwd) = 3 /\ ret.op = "push_back"
    /\ \A n \in Nodes : heap[n].strong = 2
    /\ NextOwners(NodesFwd[2]) = {head} /\ PrevOwners(NodesFwd[2]) = {tail}

\* C11: both Box stacks are LIFO: push puts the element on top, pop returns
\* and removes the top element (between pushes and pops alone: the latest
\* pushed one not yet popped), and returns None exactly when the stack is
\* empty; the other stack is not touched.
C11_Step ==
    LET one == sret'.stack = 1
        before == SElems(sheap, IF one THEN s1 ELSE s2)
        after == SElems(sheap', IF one THEN s1' ELSE s2')
    IN /\ sret'.op = "push" => after = <<sret'.arg>> \o before
       /\ sret'.op = "pop" =>
             IF before = <<>>
             THEN sret'.kind = "None" /\ after = <<>>
             ELSE /\ sret'.kind = "Some" /\ sret'.val = Head(before)
                  /\ after = Tail(before)
       /\ sret'.op \in {"push", "pop"} =>
             SElems(sheap', IF one THEN s2' ELSE s1') = SElems(sheap, IF one THEN s2 ELSE s1)
C11_StacksAreLifo == [][C11_Step]_vars

C11_Witness ==
    /\ sret = SCall(2, "pop", 0, "Some", 3)
    /\ SElems(sheap, s2) = <<2>> /\ SElems(sheap, s1) = <<1>>

\* C12: for a list l and a value x, l.prepend(x).head() is x and
\* l.prepend(x).tail() has the elements of l; the tail of an empty list is
\* empty and its head() is None; the tail of a non-empty list has its
\* elements but the first; prepend and tail leave l as it was.
C12_Step ==
    LET l == lists[pret'.from]
        n == lists'[pret'.to]
    IN /\ pret'.op = "prepend" =>
             LET t == P_tail(pheap', n)
             IN /\ P_head(pheap', n) = [kind |-> "Some", val |-> pret'.arg]
                /\ PElems(t.heap, t.head) = PElems(pheap, l)
       /\ pret'.op = "tail" =>
             IF PElems(pheap, l) = <<>>
             THEN /\ PElems(pheap', n) = <<>>
                  /\ P_head(pheap', n) = [kind |-> "None", val |-> 0]
             ELSE PElems(pheap', n) = Tail(PElems(pheap, l))
       /\ pret'.op \in {"prepend", "tail"} =>
             /\ lists'[pret'.from] = l
             /\ PElems(pheap', l) = PElems(pheap, l)
C12_PrependHeadTail == [][C12_Step]_vars

C12_Witness ==
    /\ pret.op = "tail"
    /\ PElems(pheap, lists[pret.from]) = <<3, 2, 1>>
    /\ PElems(pheap, lists[pret.to]) = <<2, 1>>
    /\ pheap[lists[pret.to]].strong = 2

\* C19: dropping a persistent list frees exactly the nodes from its head
\* down to, and not including, the first node that has another owner; every
\* other list keeps its nodes and its elements; once no list is left, no
\* node is left.
RECURSIVE SolePrefix(_, _)
SolePrefix(h, l) ==
    IF l = NULL THEN {}
    ELSE IF h[l].strong # 1 THEN {}
    ELSE {l} \cup SolePrefix(h, h[l].next)
C19_Step ==
    pret'.op = "drop" =>
        LET i == pret'.from
        IN /\ {n \in Nodes : pheap[n].strong > 0 /\ pheap'[n].strong = 0}
                 = SolePrefix(pheap, lists[i])
           /\ \A j \in Held3 \ {i} :
                 /\ lists'[j] = lists[j]
                 /\ PNodes(pheap', lists[j]) = PNodes(pheap, lists[j])
                 /\ PElems(pheap', lists[j]) = PElems(pheap, lists[j])
                 /\ \A k \in 1..Len(PNodes(pheap, lists[j])) :
                       pheap'[PNodes(pheap, lists[j])[k]].strong > 0
C19_NothingLeft == Held3 = {} => \A n \in Nodes : pheap[n] = PFree
C19_DropKeepsSharedSuffix == [](C19_NothingLeft) /\ [][C19_Step]_vars

C19_Witness ==
    /\ pret.op = "drop"
    /\ Cardinality({n \in Nodes : pheap[n].strong > 0}) = 2
    /\ \E j \in Held3 : \E k \in Held3 :
          /\ PElems(pheap, lists[j]) = <<2, 1>>
          /\ lists[k] = pheap[lists[j]].next
          /\ pheap[lists[k]].strong = 2
====
